---- MODULE Spec2Model ----
(***************************************************************************)
(* A model of orphics/analysis/pipeline.py: the task partition             *)
(* (mpi_distribute), the construction of a strided Pipeline and its        *)
(* distribute, and the two gathers of MPIStats (get_stacks, get_stats).    *)
(*                                                                         *)
(* Python lists and numpy arrays are 0-indexed: they are modelled as       *)
(* functions on 0..n-1 where the code indexes them, and as TLA+ sequences  *)
(* where only their order matters.                                        *)
(***************************************************************************)
EXTENDS Integers, Sequences, FiniteSets, TLC

VARIABLES
    \* ---- mpi_distribute called on its own
    call,        \* the arguments [num_tasks, avail_cores] of the call
    result,      \* what the call produced; raised = "pending" before it
    \* ---- Pipeline: one process per rank of MPI_Comm_World
    wsize,       \* MPI_Comm_World.Get_size()
    stride,      \* the stride argument: [given |-> FALSE] is None
    num_tasks,   \* the num_tasks argument
    eager,       \* whether the transport buffers a standard-mode Send
    tag,         \* the tag argument of distribute
    pc,          \* where each rank is
    obj,         \* each rank's Pipeline object: num_each, mcomm, mrank, msize, num_mine
    split,       \* each rank's call of MPI_Comm_World.Split: called, color, key
    array,       \* each rank's array argument of distribute
    isend,       \* each rank's loop variable i of distribute
    net,         \* messages a buffered Send has left in the transport
    ops,         \* every Send and Recv called so far: kind, by, peer (world ranks), tag
    \* ---- Pipeline.loop on every participant
    task_def,    \* the class whose task the objects have: Pipeline or a subclass
    fails,       \* the local indices at which the subclass's task raises
    lpc,         \* where each rank is in loop
    li,          \* each rank's loop variable i
    trace,       \* history: the calls each rank's loop has made, in order
    \* ---- MPIStats: one process per rank of comm, rank 0 the leader
    numcores,    \* comm.Get_size()
    num_each,    \* the num_each argument: the tasks of each rank
    gather,      \* the gather the processes call after their tasks
    plan,        \* each rank's task body: the labels it adds to, in order
    input,       \* each rank's measured value in each of its tasks
    gpc,         \* where each rank is
    done,        \* the tasks each rank has run
    little_stack,        \* self.little_stack of each rank
    little_stack_count,  \* self.little_stack_count of each rank
    vectors,             \* self.vectors of each rank
    stacks,      \* self.stacks of each rank
    stack_count, \* self.stack_count of each rank
    numobj,      \* self.numobj of each rank
    stats,       \* self.stats of each rank
    attrs,       \* the result attributes each rank's object has been given
    k,           \* each rank's loop variable k
    core,        \* each rank's loop variable core
    added,       \* history: every (label, value) each rank has added
    ncalls,      \* how many times the script calls the gather
    calls,       \* the gather calls each rank has made
    kept,        \* history: what the leader held when its first call had returned
    shapes,      \* the shape of the arrays each rank's tasks add to a stack
    tag_start    \* self.tag_start, the same on every rank

dvars == <<call, result>>
pvars == <<wsize, stride, num_tasks, eager, tag, pc, obj, split, array, isend, net, ops>>
gvars == <<numcores, num_each, gather, plan, input, gpc, done, little_stack,
           little_stack_count, vectors, stacks, stack_count, numobj, stats,
           attrs, k, core, added, ncalls, calls, kept, shapes, tag_start>>
lvars == <<task_def, fails, lpc, li, trace>>
vars  == <<dvars, pvars, gvars, lvars>>

(***************************************************************************)
(* Bounds of the model.                                                    *)
(***************************************************************************)
MaxTasks == 12      \* mpi_distribute: num_tasks in 0..MaxTasks
MaxSlots == 5       \* mpi_distribute: avail_cores in 0..MaxSlots
MaxWorld == 4       \* Pipeline: wsize in 1..MaxWorld, stride in 1..MaxWorld or None
MaxJobs  == 5       \* Pipeline: num_tasks in 0..MaxJobs
MaxCores == 3       \* MPIStats: numcores in 1..MaxCores
MaxLoad  == 4       \* MPIStats: numcores..MaxLoad tasks are shared out
Precision == 8      \* the significant bits of a float in this model

(***************************************************************************)
(* Helpers for Python's lists.                                             *)
(***************************************************************************)
Min(a, b) == IF a <= b THEN a ELSE b
Max(a, b) == IF a >= b THEN a ELSE b

\* The index a slice bound i denotes in a list of length n: a negative bound
\* counts from the end, and every bound is clipped to 0..n.
SliceIndex(i, n) == IF i < 0 THEN Max(n + i, 0) ELSE Min(i, n)

\* sum(a) of a list a given as a function on 0..n-1.
RECURSIVE SumTo(_, _)
SumTo(a, n) == IF n = 0 THEN 0 ELSE SumTo(a, n - 1) + a[n - 1]

PySum(a) == SumTo(a, Cardinality(DOMAIN a))

\* np.cumsum(a): element i is a[0] + ... + a[i].
Cumsum(a) == [i \in DOMAIN a |-> SumTo(a, i + 1)]

\* range(n)[x:y] as a sequence: the elements at the indices x..y-1 after
\* both bounds are clipped to the list.
RangeSlice(n, x, y) ==
    LET lo == SliceIndex(x, n)
        hi == SliceIndex(y, n)
    IN  [j \in 1..Max(hi - lo, 0) |-> lo + j - 1]

(***************************************************************************)
(* mpi_distribute(num_tasks, avail_cores), lines 136-145; nt and ac stand  *)
(* for its arguments num_tasks and avail_cores, each for its num_each.     *)
(***************************************************************************)
\* line 137: assert avail_cores<=num_tasks
DistributeAssertNone(nt, ac) == TRUE

DistributeAssert(nt, ac) == ac <= nt

\* lines 139-140 with the guard "if rem>0" left out: num_each[-0:] is the
\* whole array.
NumEachUnguarded(nt, ac) ==
    LET min_each == nt \div ac
        rem      == nt % ac
        first    == SliceIndex(-rem, ac)
    IN  [i \in 0..ac - 1 |->
            IF i >= first THEN min_each + 1 ELSE min_each]

\* lines 139-140 with the remainder given to the first cores,
\* num_each[:rem] += 1.
NumEachLeading(nt, ac) ==
    LET min_each == nt \div ac
        rem      == nt % ac
        last     == SliceIndex(rem, ac)
    IN  [i \in 0..ac - 1 |->
            IF i < last THEN min_each + 1 ELSE min_each]

\* lines 138-140: divmod, the equal share, and num_each[-rem:] += 1 when
\* rem > 0.
NumEach(nt, ac) ==
    LET min_each == nt \div ac
        rem      == nt % ac
        first    == SliceIndex(-rem, ac)
    IN  [i \in 0..ac - 1 |->
            IF rem > 0 /\ i >= first THEN min_each + 1 ELSE min_each]

\* lines 142-144: task_dist[i] = range(num_tasks)[x:y] for (x, y) in
\* zip([0]+cumul[:-1], cumul).
TaskDist(nt, each) ==
    LET cumul == Cumsum(each)
        start == [i \in DOMAIN each |-> IF i = 0 THEN 0 ELSE cumul[i - 1]]
    IN  [i \in DOMAIN each |-> RangeSlice(nt, start[i], cumul[i])]

\* The whole function: what it raises, or the pair it returns.
mpi_distribute(nt, ac) ==
    IF ~DistributeAssert(nt, ac)
    THEN [raised |-> "AssertionError"]
    ELSE IF ac = 0
    THEN [raised |-> "ZeroDivisionError"]
    ELSE LET each == NumEach(nt, ac)
         IN  [raised    |-> "no",
              num_each  |-> each,
              task_dist |-> TaskDist(nt, each)]

(***************************************************************************)
(* SpecDistribute: mpi_distribute applied to every pair of arguments       *)
(* within the bounds.                                                      *)
(***************************************************************************)
IdlePipeline ==
    /\ wsize = 0 /\ stride = [given |-> FALSE, value |-> 0] /\ num_tasks = 0
    /\ eager = FALSE /\ tag = 0
    /\ pc = <<>> /\ obj = <<>> /\ split = <<>> /\ array = <<>> /\ isend = <<>>
    /\ net = {} /\ ops = {}

IdleLoop ==
    /\ task_def = "none" /\ fails = {} /\ lpc = <<>> /\ li = <<>> /\ trace = <<>>

IdleGather ==
    /\ numcores = 0 /\ num_each = <<>> /\ gather = "none" /\ plan = <<>>
    /\ input = <<>> /\ gpc = <<>> /\ done = <<>>
    /\ little_stack = <<>> /\ little_stack_count = <<>> /\ vectors = <<>>
    /\ stacks = <<>> /\ stack_count = <<>> /\ numobj = <<>> /\ stats = <<>>
    /\ attrs = <<>> /\ k = <<>> /\ core = <<>> /\ added = <<>>
    /\ ncalls = 0 /\ calls = <<>> /\ kept = <<>> /\ shapes = <<>>
    /\ tag_start = 0

InitDistribute ==
    /\ IdlePipeline
    /\ IdleGather
    /\ IdleLoop
    /\ call \in [num_tasks : 0..MaxTasks, avail_cores : 0..MaxSlots]
    /\ result = [raised |-> "pending"]

CallDistribute ==
    /\ result.raised = "pending"
    /\ result' = mpi_distribute(call.num_tasks, call.avail_cores)
    /\ UNCHANGED <<call, pvars, gvars, lvars>>

NextDistribute == CallDistribute

SpecDistribute == InitDistribute /\ [][NextDistribute]_vars

Returned == result.raised = "no"

\* The concatenation of task_dist[0], ..., task_dist[n-1].
RECURSIVE ConcatTo(_, _)
ConcatTo(d, n) == IF n = 0 THEN <<>> ELSE ConcatTo(d, n - 1) \o d[n - 1]

Contiguous(s) == \A j \in 1..Len(s) - 1 : s[j + 1] = s[j] + 1

\* C1: for num_tasks >= avail_cores >= 1 the call returns counts that sum to
\* num_tasks and ranges that are contiguous, as long as their slot's count,
\* and whose concatenation in slot order is 0, 1, ..., num_tasks-1.
C1_Partition ==
    (result.raised # "pending" /\ call.num_tasks >= call.avail_cores /\ call.avail_cores >= 1)
    => /\ result.raised = "no"
       /\ DOMAIN result.num_each = 0..call.avail_cores - 1
       /\ DOMAIN result.task_dist = 0..call.avail_cores - 1
       /\ PySum(result.num_each) = call.num_tasks
       /\ \A i \in DOMAIN result.task_dist :
             /\ Len(result.task_dist[i]) = result.num_each[i]
             /\ Contiguous(result.task_dist[i])
       /\ ConcatTo(result.task_dist, call.avail_cores)
             = [j \in 1..call.num_tasks |-> j - 1]

\* C1's case: a returned partition with a remainder and several slots.
C1_Witness ==
    /\ Returned
    /\ call.num_tasks = 10 /\ call.avail_cores = 4
    /\ result.task_dist[3] = <<7, 8, 9>>

\* C2: slot i gets base tasks when i < avail_cores - rem and base + 1
\* otherwise; so the counts differ by at most 1, slot 0 never gets an extra
\* task, and rem = 0 gives every slot base tasks.
C2_TrailingRemainder ==
    (result.raised # "pending" /\ call.num_tasks >= call.avail_cores /\ call.avail_cores >= 1)
    => LET base == call.num_tasks \div call.avail_cores
           rem  == call.num_tasks % call.avail_cores
       IN  /\ result.raised = "no"
           /\ \A i \in 0..call.avail_cores - 1 :
                 result.num_each[i]
                    = IF i < call.avail_cores - rem THEN base ELSE base + 1
           /\ \A i, j \in 0..call.avail_cores - 1 :
                 result.num_each[i] - result.num_each[j] <= 1
           /\ result.num_each[0] = base
           /\ (rem = 0 =>
                 \A i \in 0..call.avail_cores - 1 : result.num_each[i] = base)
           /\ (call.num_tasks = 10 /\ call.avail_cores = 4 =>
                 result.num_each = [i \in 0..3 |-> IF i < 2 THEN 2 ELSE 3])

\* C2's case: 10 tasks on 4 slots gave the counts [2,2,3,3].
C2_Witness ==
    /\ Returned
    /\ call.num_tasks = 10 /\ call.avail_cores = 4
    /\ result.num_each[0] = 2 /\ result.num_each[1] = 2
    /\ result.num_each[2] = 3 /\ result.num_each[3] = 3

(***************************************************************************)
(* Pipeline.__init__(MPI_Comm_World, num_tasks, stride), lines 177-214.    *)
(* Every rank of the world runs the same constructor with the same         *)
(* arguments.                                                              *)
(***************************************************************************)
Ranks == 0..wsize - 1

\* lines 185-191: stride = 1 when the argument is None.
EffStride == IF stride.given THEN stride.value ELSE 1

\* line 187: assert wsize%stride==0
StrideAssertNone(w, s) == TRUE

StrideAssert(w, s) == w % s = 0

\* line 195 without the step: range(0,wsize).
ParticipantsAll(w, s) == 0..w - 1

\* line 195: participants = range(0,wsize,stride).
Participants(w, s) == {j * s : j \in 0..((w - 1) \div s)}

\* line 207 with the key of line 213.
SplitKeyNegated(wrank) == -wrank

\* line 207: key=wrank.
SplitKey(wrank) == wrank

\* lines 206-213: the arguments of this rank's Split.
SplitCall(wrank) ==
    IF wrank \in Participants(wsize, EffStride)
    THEN [called |-> TRUE, color |-> 55, key |-> SplitKey(wrank)]
    ELSE [called |-> TRUE, color |-> 75, key |-> -wrank]

\* MPI_Comm_split: the new communicator of rank r holds the ranks that gave
\* r's color, ordered by key and, for equal keys, by rank in the parent.
SplitMembers(r) == {q \in Ranks : split[q].color = split[r].color}

SplitBefore(q, r) ==
    \/ split[q].key < split[r].key
    \/ split[q].key = split[r].key /\ q < r

SplitRank(r) == Cardinality({q \in SplitMembers(r) : SplitBefore(q, r)})

\* The new communicator as the world rank of each of its ranks.
SplitComm(r) ==
    [g \in 0..Cardinality(SplitMembers(r)) - 1 |->
        CHOOSE q \in SplitMembers(r) : SplitRank(q) = g]

Unset ==
    [num_each |-> <<>>, mcomm |-> <<>>, mrank |-> -1, msize |-> -1, num_mine |-> -1]

\* lines 179-207/213: the constructor up to its call of Split, or to the
\* assertion that fails.
Construct(r) ==
    /\ pc[r] = "new"
    /\ LET avail == wsize \div EffStride
           d     == mpi_distribute(num_tasks, avail)
       IN  IF stride.given /\ ~StrideAssert(wsize, stride.value)
           THEN /\ pc' = [pc EXCEPT ![r] = "AssertionError"]
                /\ UNCHANGED <<obj, split>>
           ELSE IF d.raised # "no"
           THEN /\ pc' = [pc EXCEPT ![r] = d.raised]
                /\ UNCHANGED <<obj, split>>
           ELSE IF PySum(d.num_each) # num_tasks
           THEN /\ pc' = [pc EXCEPT ![r] = "AssertionError"]
                /\ UNCHANGED <<obj, split>>
           ELSE /\ obj' = [obj EXCEPT ![r].num_each = d.num_each]
                /\ split' = [split EXCEPT ![r] = SplitCall(r)]
                /\ pc' = [pc EXCEPT ![r] = "Split"]
    /\ UNCHANGED <<wsize, stride, num_tasks, eager, tag, array, isend, net, ops, dvars, gvars, lvars>>

\* lines 207-210 and 213-214: Split is collective over the world and returns
\* once every rank has called it; a participant reads its rank, the size and
\* its share, an idle rank leaves through sys.exit(1).
SplitReturn(r) ==
    /\ pc[r] = "Split"
    /\ \A q \in Ranks : split[q].called
    /\ IF split[r].color = 55
       THEN LET mrank == SplitRank(r)
            IN  IF mrank \in DOMAIN obj[r].num_each
                THEN /\ obj' = [obj EXCEPT ![r].mcomm = SplitComm(r),
                                           ![r].mrank = mrank,
                                           ![r].msize = Cardinality(SplitMembers(r)),
                                           ![r].num_mine = obj[r].num_each[mrank]]
                     /\ pc' = [pc EXCEPT ![r] = "ready"]
                ELSE /\ obj' = [obj EXCEPT ![r].mcomm = SplitComm(r),
                                           ![r].mrank = mrank,
                                           ![r].msize = Cardinality(SplitMembers(r))]
                     /\ pc' = [pc EXCEPT ![r] = "IndexError"]
       ELSE /\ pc' = [pc EXCEPT ![r] = "exited"]
            /\ UNCHANGED obj
    /\ UNCHANGED <<wsize, stride, num_tasks, eager, tag, split, array, isend, net, ops, dvars, gvars, lvars>>

(***************************************************************************)
(* Pipeline.distribute(array, tag), lines 218-226.  Send and Recv block:   *)
(* a Send returns when a matching Recv takes the message (rendezvous) or,  *)
(* where the transport buffers it (eager), at once.                        *)
(***************************************************************************)
\* The world rank of rank g of r's group.
World(r, g) == obj[r].mcomm[g]

Op(kind, r, g) == [kind |-> kind, by |-> r, peer |-> World(r, g), tag |-> tag]

\* lines 221-225: the call, up to its first Send or its Recv.
DistributeCall(r) ==
    /\ pc[r] = "ready"
    /\ IF obj[r].mrank = 0
       THEN /\ pc' = [pc EXCEPT ![r] = "Send"]
            /\ isend' = [isend EXCEPT ![r] = 0]
            /\ ops' = ops \cup {Op("Send", r, 0)}
       ELSE /\ pc' = [pc EXCEPT ![r] = "Recv"]
            /\ ops' = ops \cup {Op("Recv", r, 0)}
            /\ UNCHANGED isend
    /\ UNCHANGED <<wsize, stride, num_tasks, eager, tag, obj, split, array, net, dvars, gvars, lvars>>

\* lines 222-223, 226: after Send number i returns, the loop calls the next
\* Send or the call returns.
SendReturns(r, pcs) ==
    LET i == isend[r] + 1
    IN  /\ isend' = [isend EXCEPT ![r] = i]
        /\ IF i < obj[r].msize
           THEN /\ pc' = pcs
                /\ ops' = ops \cup {Op("Send", r, i)}
           ELSE /\ pc' = [pcs EXCEPT ![r] = "done"]
                /\ UNCHANGED ops

\* line 223 on a transport that buffers the message.
SendBuffered(r) ==
    /\ pc[r] = "Send"
    /\ eager
    /\ net' = net \cup {[src |-> r, dst |-> World(r, isend[r]), tag |-> tag,
                         data |-> array[r]]}
    /\ SendReturns(r, pc)
    /\ UNCHANGED <<wsize, stride, num_tasks, eager, tag, obj, split, array, dvars, gvars, lvars>>

\* line 225: the Recv from the leader with the tag returns with the data of
\* a message the transport holds for this rank or, without buffering, of the
\* leader's Send to this rank, which returns with it (lines 223 and 225
\* meeting).  The leader's first Send is to itself (range(self.msize) starts
\* at 0) and no Recv of the leader ever meets it.
Recv(r) ==
    /\ pc[r] = "Recv"
    /\ \/ /\ \E m \in net :
                /\ m.dst = r /\ m.src = World(r, 0) /\ m.tag = tag
                /\ array' = [array EXCEPT ![r] = m.data]
                /\ net' = net \ {m}
          /\ pc' = [pc EXCEPT ![r] = "done"]
          /\ UNCHANGED <<isend, ops>>
       \/ /\ ~eager
          /\ \E s \in Ranks :
                /\ pc[s] = "Send" /\ World(s, isend[s]) = r /\ World(r, 0) = s
                /\ array' = [array EXCEPT ![r] = array[s]]
                /\ SendReturns(s, [pc EXCEPT ![r] = "done"])
          /\ UNCHANGED net
    /\ UNCHANGED <<wsize, stride, num_tasks, eager, tag, obj, split, dvars, gvars, lvars>>

(***************************************************************************)
(* SpecPipeline: every rank of a world of 1..MaxWorld processes constructs *)
(* a Pipeline and the participants call distribute.                        *)
(***************************************************************************)
Payloads == {1, 2}
Tags == {7}

InitPipeline ==
    /\ IdleGather
    /\ IdleLoop
    /\ call = [num_tasks |-> 0, avail_cores |-> 0]
    /\ result = [raised |-> "pending"]
    /\ wsize \in 1..MaxWorld
    /\ stride \in {[given |-> FALSE, value |-> 0]}
                  \cup [given : {TRUE}, value : 1..MaxWorld]
    /\ num_tasks \in 0..MaxJobs
    /\ eager \in BOOLEAN
    /\ tag \in Tags
    /\ pc = [r \in Ranks |-> "new"]
    /\ obj = [r \in Ranks |-> Unset]
    /\ split = [r \in Ranks |-> [called |-> FALSE, color |-> 0, key |-> 0]]
    /\ \E v \in Payloads : array = [r \in Ranks |-> IF r = 0 THEN v ELSE 0]
    /\ isend = [r \in Ranks |-> 0]
    /\ net = {}
    /\ ops = {}

NextPipeline ==
    \/ \E r \in Ranks : Construct(r)
    \/ \E r \in Ranks : SplitReturn(r)
    \/ \E r \in Ranks : DistributeCall(r)
    \/ \E r \in Ranks : SendBuffered(r)
    \/ \E r \in Ranks : Recv(r)

SpecPipeline == InitPipeline /\ [][NextPipeline]_vars

\* The configurations the constructor accepts.
Accepted ==
    /\ stride.given => wsize % stride.value = 0
    /\ wsize \div EffStride <= num_tasks

IsMultiple(r) == r % EffStride = 0

Participant(r) == pc[r] \in {"ready", "Send", "Recv", "done"}

\* C4 (as claimed): in a distribute called by every participant with the
\* same tag, the leader's Sends go to the other participants and to no one
\* else, every other participant calls one Recv from the leader, every call
\* returns (a state where some call has not returned has a next step), and
\* once all have returned every participant holds the leader's buffer.
C4_LeaderSendsToOthersOnly ==
    /\ \A o \in ops :
          /\ o.kind = "Send" =>
                /\ o.by = 0 /\ o.peer # o.by
                /\ IsMultiple(o.peer) /\ o.tag = tag
          /\ o.kind = "Recv" => o.by # 0 /\ o.peer = 0 /\ o.tag = tag
    /\ (\A r \in Ranks : IsMultiple(r) => pc[r] \in {"Send", "Recv", "done"})
          => \/ \A r \in Ranks : IsMultiple(r) => pc[r] = "done"
             \/ ENABLED NextPipeline
    /\ (\A r \in Ranks : IsMultiple(r) => pc[r] = "done")
          => \A r \in Ranks : IsMultiple(r) => array[r] = array[0]

\* C7: a rank that is not a multiple of stride is never past the Split of
\* the constructor, and no Send, Recv or buffered message has it as its
\* caller, sender or receiver.
C7_IdleRanksSilent ==
    /\ \A r \in Ranks :
          ~IsMultiple(r) => pc[r] \in {"new", "AssertionError", "Split", "exited"}
    /\ \A o \in ops : IsMultiple(o.by) /\ IsMultiple(o.peer)
    /\ \A m \in net : IsMultiple(m.src) /\ IsMultiple(m.dst)

\* C7's case: an idle rank has left through sys.exit while a participant of
\* the same world has called a Send or a Recv.
C7_Witness ==
    /\ EffStride = 2 /\ wsize = 4
    /\ pc[1] = "exited" /\ pc[3] = "exited"
    /\ \E o \in ops : o.kind = "Recv" /\ o.by = 2

\* C8: in an accepted configuration the participants are exactly the ranks
\* that are multiples of stride, the group has wsize/stride members in
\* ascending world rank, rank r has group rank r/stride, and its num_mine is
\* the count of slot r/stride of the partition.
C8_ActiveGroup ==
    Accepted =>
        \A r \in Ranks :
            /\ pc[r] \notin {"new", "Split"} => (Participant(r) <=> IsMultiple(r))
            /\ pc[r] \notin {"new", "Split"} => (pc[r] = "exited" <=> ~IsMultiple(r))
            /\ Participant(r) =>
                  /\ obj[r].msize = wsize \div EffStride
                  /\ obj[r].mcomm = [g \in 0..(wsize \div EffStride) - 1 |-> g * EffStride]
                  /\ obj[r].mrank = r \div EffStride
                  /\ obj[r].num_mine
                        = NumEach(num_tasks, wsize \div EffStride)[r \div EffStride]

\* C8's case: a strided group with uneven shares has been formed.
C8_Witness ==
    /\ wsize = 4 /\ stride = [given |-> TRUE, value |-> 2] /\ num_tasks = 5
    /\ Participant(0) /\ obj[0].mrank = 0 /\ obj[0].num_mine = 2
    /\ Participant(2) /\ obj[2].mrank = 1 /\ obj[2].num_mine = 3
    /\ pc[1] = "exited" /\ pc[3] = "exited"

\* C9: every participant of a constructed Pipeline has at least one task.
C9_EveryWorkerHasTask ==
    \A r \in Ranks : Participant(r) => obj[r].num_mine >= 1

\* C9's case: as many slots as tasks, each participant with exactly one.
C9_Witness ==
    /\ wsize = 3 /\ EffStride = 1 /\ num_tasks = 3
    /\ \A r \in Ranks : Participant(r) /\ obj[r].num_mine = 1

\* C10: in a configuration that is not accepted no rank gets past the failed
\* assertion: it has called no Split, no Send and no Recv; and where only the
\* slots exceed the tasks, it is mpi_distribute that raises.
C10_RejectedBeforeMessaging ==
    ~Accepted =>
        /\ \A r \in Ranks :
              /\ pc[r] \in {"new", "AssertionError"}
              /\ ~split[r].called
              /\ obj[r] = Unset
        /\ ops = {} /\ net = {}
        /\ (stride.given => wsize % stride.value = 0)
              => mpi_distribute(num_tasks, wsize \div EffStride)
                    = [raised |-> "AssertionError"]

\* C10's cases: every rank has failed, once for each of the two reasons.
C10_Witness ==
    /\ \A r \in Ranks : pc[r] = "AssertionError"
    /\ \/ wsize = 3 /\ stride = [given |-> TRUE, value |-> 2] /\ num_tasks = 5
       \/ wsize = 4 /\ stride = [given |-> FALSE, value |-> 0] /\ num_tasks = 3

(***************************************************************************)
(* Pipeline.loop, lines 233-244, run by every participant of a constructed *)
(* Pipeline.  task_def tells whose task the objects have: Pipeline.task    *)
(* (line 233, which takes no index), or the task(self, i) of a subclass,   *)
(* which raises at the local indices in fails and returns at the others.   *)
(* _initialize and _finish are the hooks of lines 235-238, which return.   *)
(***************************************************************************)
MaxIndex == 2       \* Pipeline.loop: the task raises at indices within 0..MaxIndex

Called(name, i) == [call |-> name, i |-> i]

\* line 243: how the call self.task(i) ends.  Pipeline.task is
\* "def task(self)", so calling it with i raises TypeError.
TaskOutcome(i) ==
    IF task_def = "Pipeline" THEN "TypeError"
    ELSE IF i \in fails THEN "TaskError"
    ELSE "returned"

\* line 242 stepping by two.
NextIndexSkip(i) == i + 2

\* line 242: for i in range(self.num_mine)
NextIndex(i) == i + 1

\* lines 242-243 with the task's exception caught and the loop going on.
AfterTaskSwallowed(outcome, i) == [pc |-> "for", i |-> NextIndex(i)]

\* lines 242-243: after self.task(i) returns the loop takes the next index;
\* an exception leaves the loop and the call.
AfterTask(outcome, i) ==
    IF outcome = "returned" THEN [pc |-> "for", i |-> NextIndex(i)]
                            ELSE [pc |-> outcome, i |-> i]

\* line 241: the call of loop and its call of _initialize.
LoopCall(r) ==
    /\ pc[r] = "ready"
    /\ lpc[r] = "created"
    /\ trace' = [trace EXCEPT ![r] = Append(trace[r], Called("_initialize", -1))]
    /\ lpc' = [lpc EXCEPT ![r] = "for"]
    /\ li' = [li EXCEPT ![r] = 0]
    /\ UNCHANGED <<task_def, fails, dvars, pvars, gvars>>

\* lines 242-243: one call of self.task(i).
LoopTask(r) ==
    /\ lpc[r] = "for"
    /\ li[r] < obj[r].num_mine
    /\ LET after == AfterTask(TaskOutcome(li[r]), li[r])
       IN  /\ trace' = [trace EXCEPT ![r] = Append(trace[r], Called("task", li[r]))]
           /\ lpc' = [lpc EXCEPT ![r] = after.pc]
           /\ li' = [li EXCEPT ![r] = after.i]
    /\ UNCHANGED <<task_def, fails, dvars, pvars, gvars>>

\* line 244: the range is used up, _finish is called and loop returns.
LoopFinish(r) ==
    /\ lpc[r] = "for"
    /\ li[r] >= obj[r].num_mine
    /\ trace' = [trace EXCEPT ![r] = Append(trace[r], Called("_finish", -1))]
    /\ lpc' = [lpc EXCEPT ![r] = "returned"]
    /\ UNCHANGED <<task_def, fails, li, dvars, pvars, gvars>>

(***************************************************************************)
(* SpecLoop: every rank of a world of 1..MaxWorld processes constructs a   *)
(* Pipeline and the participants call loop.                                *)
(***************************************************************************)
InitLoop ==
    /\ IdleGather
    /\ call = [num_tasks |-> 0, avail_cores |-> 0]
    /\ result = [raised |-> "pending"]
    /\ wsize \in 1..MaxWorld
    /\ stride \in {[given |-> FALSE, value |-> 0]}
                  \cup [given : {TRUE}, value : 1..MaxWorld]
    /\ num_tasks \in 0..MaxJobs
    /\ eager = FALSE
    /\ tag \in Tags
    /\ pc = [r \in Ranks |-> "new"]
    /\ obj = [r \in Ranks |-> Unset]
    /\ split = [r \in Ranks |-> [called |-> FALSE, color |-> 0, key |-> 0]]
    /\ array = [r \in Ranks |-> 0]
    /\ isend = [r \in Ranks |-> 0]
    /\ net = {}
    /\ ops = {}
    /\ task_def \in {"Pipeline", "subclass"}
    /\ fails \in IF task_def = "Pipeline" THEN {{}} ELSE SUBSET (0..MaxIndex)
    /\ lpc = [r \in Ranks |-> "created"]
    /\ li = [r \in Ranks |-> 0]
    /\ trace = [r \in Ranks |-> <<>>]

NextLoop ==
    \/ \E r \in Ranks : Construct(r)
    \/ \E r \in Ranks : SplitReturn(r)
    \/ \E r \in Ranks : LoopCall(r)
    \/ \E r \in Ranks : LoopTask(r)
    \/ \E r \in Ranks : LoopFinish(r)

SpecLoop == InitLoop /\ [][NextLoop]_vars

\* The calls of a loop over n indices that runs to its end.
Expected(n) ==
    <<Called("_initialize", -1)>> \o [j \in 1..n |-> Called("task", j - 1)]
        \o <<Called("_finish", -1)>>

IsPrefix(p, q) == Len(p) <= Len(q) /\ \A j \in 1..Len(p) : p[j] = q[j]

Raised(r) == lpc[r] \in {"TypeError", "TaskError"}

\* C13: the calls a loop has made are at every moment the beginning of
\* _initialize, task(0), ..., task(num_mine-1), _finish; a loop that has
\* returned has made exactly these calls; and a loop that is under way (no
\* task call of it has raised) always has its next call to make.
C13_LoopOrder ==
    \A r \in Ranks :
        lpc[r] # "created" =>
            LET e == Expected(obj[r].num_mine)
            IN  /\ IsPrefix(trace[r], e)
                /\ trace[r][1] = Called("_initialize", -1)
                /\ lpc[r] = "returned" => trace[r] = e
                /\ lpc[r] # "returned" => trace[r] # e
                /\ lpc[r] = "for" => ENABLED (LoopTask(r) \/ LoopFinish(r))

\* C13's case: a loop over three indices has returned.
C13_Witness ==
    \E r \in Ranks :
        /\ lpc[r] = "returned" /\ obj[r].num_mine = 3
        /\ trace[r] = <<Called("_initialize", -1), Called("task", 0), Called("task", 1),
                        Called("task", 2), Called("_finish", -1)>>

\* C19: a call self.task(i) that raises is the last call its loop makes (no
\* task(j) for j > i, no second task(i), no _finish), the loop has ended in
\* that exception, and no rank has sent or received anything.
C19_TaskErrorPropagates ==
    /\ \A r \in Ranks :
          /\ \A n \in 1..Len(trace[r]) :
                (trace[r][n].call = "task" /\ TaskOutcome(trace[r][n].i) # "returned")
                   => /\ n = Len(trace[r])
                      /\ lpc[r] = TaskOutcome(trace[r][n].i)
                      /\ li[r] = trace[r][n].i
          /\ Raised(r) =>
                /\ trace[r] = SubSeq(Expected(obj[r].num_mine), 1, li[r] + 2)
                /\ ~ENABLED (LoopCall(r) \/ LoopTask(r) \/ LoopFinish(r))
    /\ ops = {} /\ net = {}

\* C19's case: the task raised at index 1 of 3, after task(0) returned.
C19_Witness ==
    \E r \in Ranks :
        /\ lpc[r] = "TaskError" /\ obj[r].num_mine = 3 /\ li[r] = 1
        /\ trace[r] = <<Called("_initialize", -1), Called("task", 0), Called("task", 1)>>

(***************************************************************************)
(* MPIStats, lines 9-134.                                                  *)
(*                                                                         *)
(* A dict is a sequence of <<key, value>> pairs in the order keys()        *)
(* enumerates them: an order fixed by the insertions made, taken here to   *)
(* be the order of insertion.  A float is a fraction <<n, d>> in lowest     *)
(* terms that a binary format of Precision significant bits holds (float64 *)
(* has 53; the exponent range is left out), and every operation rounds its *)
(* exact result to the nearest such number, ties to even.  An array is     *)
(* [dtype, shape, data] with its elements in row order; a matrix is        *)
(* [dtype, rows].                                                          *)
(***************************************************************************)
Cores == 0..numcores - 1

Keys(d) == [i \in 1..Len(d) |-> d[i][1]]

Has(d, key) == \E i \in 1..Len(d) : d[i][1] = key

Get(d, key) == d[CHOOSE i \in 1..Len(d) : d[i][1] = key][2]

\* d[key] = value
Put(d, key, value) ==
    IF Has(d, key)
    THEN [i \in 1..Len(d) |-> IF d[i][1] = key THEN <<key, value>> ELSE d[i]]
    ELSE Append(d, <<key, value>>)

Abs(x) == IF x < 0 THEN -x ELSE x

RECURSIVE Gcd(_, _)
Gcd(a, b) == IF b = 0 THEN a ELSE Gcd(b, a % b)

\* The fraction n/d, d > 0, in lowest terms.
Frac(n, d) == LET g == Gcd(Abs(n), d) IN <<n \div g, d \div g>>

RECURSIVE Pow2(_)
Pow2(e) == IF e = 0 THEN 1 ELSE 2 * Pow2(e - 1)

\* The binary exponent s at which a/d, a > 0, has Precision bits before the
\* point: 2^(Precision-1) <= (a/d) * 2^s < 2^Precision.
RECURSIVE Scale(_, _, _)
Scale(a, d, s) ==
    LET num == IF s >= 0 THEN a * Pow2(s) ELSE a
        den == IF s >= 0 THEN d ELSE d * Pow2(-s)
    IN  IF num >= den * Pow2(Precision) THEN Scale(a, d, s - 1)
        ELSE IF num < den * Pow2(Precision - 1) THEN Scale(a, d, s + 1)
        ELSE s

\* The fraction n/d rounded at the binary exponent s, ties to even.
RoundAt(n, d, s) ==
    LET a   == Abs(n)
        num == IF s >= 0 THEN a * Pow2(s) ELSE a
        den == IF s >= 0 THEN d ELSE d * Pow2(-s)
        q   == num \div den
        rem == num % den
        up  == 2 * rem > den \/ (2 * rem = den /\ q % 2 = 1)
        m   == (IF up THEN q + 1 ELSE q) * (IF n < 0 THEN -1 ELSE 1)
    IN  IF s >= 0 THEN Frac(m, Pow2(s)) ELSE <<m * Pow2(-s), 1>>

\* The float nearest to the fraction x, ties to even (x and its exponent
\* are worked out once).
Round(x) ==
    CHOOSE r \in {IF w[1] = 0 THEN <<0, 1>> ELSE RoundAt(w[1], w[2], w[3]) :
                    w \in {<<v[1], v[2], IF v[1] = 0 THEN 0 ELSE Scale(Abs(v[1]), v[2], 0)>> :
                             v \in {x}}} : TRUE

\* An integer as a float.
ToFloat(i) == Round(<<i, 1>>)

FloatAdd(x, y) == Round(Frac(x[1] * y[2] + y[1] * x[2], x[2] * y[2]))

\* x / n for a float x and an integer n >= 0; numpy gives inf, -inf or nan
\* for n = 0, written <<1, 0>>, <<-1, 0>> and <<0, 0>>.
FloatDiv(x, n) ==
    IF n = 0 THEN <<(IF x[1] > 0 THEN 1 ELSE IF x[1] < 0 THEN -1 ELSE 0), 0>>
    ELSE Round(Frac(x[1], x[2] * n))

\* The elements of an array as floats.
FloatData(a) ==
    IF a.dtype = "int64"
    THEN [i \in 1..Len(a.data) |-> ToFloat(a.data[i])]
    ELSE a.data

\* lines 52 and 54: x += arr for the float 0. or a float64 array x of arr's
\* shape.
StackAdd(x, arr) ==
    IF x.shape = <<>>
    THEN [dtype |-> "float64", shape |-> arr.shape,
          data  |-> [i \in 1..Len(arr.data) |-> FloatAdd(x.data[1], FloatData(arr)[i])]]
    ELSE [dtype |-> "float64", shape |-> x.shape,
          data  |-> [i \in 1..Len(x.data) |-> FloatAdd(x.data[i], FloatData(arr)[i])]]

\* line 90 as an assignment: self.stacks[label] = data_vessel
VesselReplace(x, vessel) == vessel

\* line 90: self.stacks[label] += data_vessel
VesselAdd(x, vessel) == StackAdd(x, vessel)

\* line 94: x /= n
StackDivide(x, n) ==
    [dtype |-> "float64", shape |-> x.shape,
     data  |-> [i \in 1..Len(x.data) |-> FloatDiv(x.data[i], n)]]

\* lines 51-55: add_to_stack(label, arr) on st = [stack, count].
add_to_stack(st, label, arr) ==
    LET s0 == IF Has(st.stack, label)
              THEN st
              ELSE [stack |-> Put(st.stack, label,
                                  [dtype |-> "float", shape |-> <<>>,
                                   data |-> <<ToFloat(0)>>]),
                    count |-> Put(st.count, label, 0)]
    IN  [stack |-> Put(s0.stack, label, StackAdd(Get(s0.stack, label), arr)),
         count |-> Put(s0.count, label, Get(s0.count, label) + 1)]

\* lines 41-42: add_to_stats(label, vector) on the dict of lists vs.
add_to_stats(vs, label, vector) ==
    LET v0 == IF Has(vs, label)
              THEN vs
              ELSE Put(vs, label, [dtype |-> "list", rows |-> <<>>])
    IN  Put(v0, label, [dtype |-> "list",
                        rows  |-> Append(Get(v0, label).rows, vector)])

\* The rows of a matrix as floats: .astype(np.float64).
FloatRows(m) ==
    IF m.dtype = "float64"
    THEN m.rows
    ELSE [i \in 1..Len(m.rows) |->
            [j \in 1..Len(m.rows[i]) |-> ToFloat(m.rows[i][j])]]

\* lines 105 and 116: np.array(self.vectors[label]).shape[0]
NumRows(m) == Len(m.rows)

\* line 127: self.vectors[label].shape[1]
NumCols(m) == Len(m.rows[1])

\* line 123: np.array(self.vectors[label])
NpArray(m) == [dtype |-> IF m.dtype = "list" THEN "int64" ELSE m.dtype, rows |-> m.rows]

RECURSIVE Flatten(_)
Flatten(rows) == IF rows = <<>> THEN <<>> ELSE Head(rows) \o Flatten(Tail(rows))

\* lines 88-89 and 128-129: the buffer of nrows x ncols that Recv fills with
\* the elements of the message, in row order.
RecvRows(nrows, ncols, msg) ==
    LET flat == Flatten(msg.rows)
    IN  [dtype |-> "float64",
         rows  |-> [i \in 1..nrows |-> [j \in 1..ncols |-> flat[(i - 1) * ncols + j]]]]

\* line 130 with the arguments of np.append exchanged.
NpPrepend(m, vessel) == [dtype |-> "float64", rows |-> vessel.rows \o FloatRows(m)]

\* line 130: np.append(self.vectors[label], data_vessel, axis=0)
NpAppend(m, vessel) == [dtype |-> "float64", rows |-> FloatRows(m) \o vessel.rows]

\* line 19: tag_start=333
DefaultTagStart == 333

\* line 78 with the factor of another phase.
StackCountRecvTagOther(j) == tag_start * 200 + j

\* line 89 with one tag for every label.
StackDataRecvTagFlat(j) == tag_start * 10

\* The tags of lines 65, 78, 69, 89, 105, 118, 109 and 129.
StackCountSendTag(j) == tag_start * 300 + j

StackCountRecvTag(j) == tag_start * 300 + j

StackDataSendTag(j) == tag_start * 10 + j

StackDataRecvTag(j) == tag_start * 10 + j

StatsCountSendTag(j) == tag_start * 200 + j

StatsCountRecvTag(j) == tag_start * 200 + j

StatsDataSendTag(j) == tag_start + j

StatsDataRecvTag(j) == tag_start + j

(***************************************************************************)
(* The run of each process: its tasks, each adding one measurement to      *)
(* every label of the plan, then the gather.                               *)
(***************************************************************************)
LabelCode(label) == IF label = "a" THEN 10 ELSE 20

\* What a task with measured value v adds to a label's stack and statistic.
StackInput(label, v) ==
    [dtype |-> "int64", shape |-> <<2>>, data |-> <<v, LabelCode(label)>>]

StatsInput(label, v) == <<v, LabelCode(label)>>

\* The number of elements of an array of the given shape.
RECURSIVE Size(_)
Size(shape) == IF shape = <<>> THEN 1 ELSE Head(shape) * Size(Tail(shape))

\* The same for a rank whose arrays have the given shape: StackInput for the
\* shape (2,).
ShapedInput(shape, label, v) ==
    [dtype |-> "int64", shape |-> shape,
     data  |-> [i \in 1..Size(shape) |-> IF i = 1 THEN v ELSE LabelCode(label) + (i - 2)]]

RECURSIVE TaskStack(_, _, _, _)
TaskStack(st, labels, v, shape) ==
    IF labels = <<>> THEN st
    ELSE TaskStack(add_to_stack(st, Head(labels), ShapedInput(shape, Head(labels), v)),
                   Tail(labels), v, shape)

RECURSIVE TaskStats(_, _, _)
TaskStats(vs, labels, v) ==
    IF labels = <<>> THEN vs
    ELSE TaskStats(add_to_stats(vs, Head(labels), StatsInput(Head(labels), v)),
                   Tail(labels), v)

\* One call of the task body on rank c: add_to_stack, or add_to_stats, for
\* every label of the plan.
Task(c) ==
    /\ gpc[c] = "loop"
    /\ done[c] < num_each[c]
    /\ LET v == input[c][done[c] + 1]
       IN  /\ IF gather = "get_stacks"
              THEN LET st == TaskStack([stack |-> little_stack[c],
                                        count |-> little_stack_count[c]],
                                       plan[c], v, shapes[c])
                   IN  /\ little_stack' = [little_stack EXCEPT ![c] = st.stack]
                       /\ little_stack_count' = [little_stack_count EXCEPT ![c] = st.count]
                       /\ UNCHANGED vectors
              ELSE /\ vectors' = [vectors EXCEPT ![c] = TaskStats(vectors[c], plan[c], v)]
                   /\ UNCHANGED <<little_stack, little_stack_count>>
           /\ added' = [added EXCEPT ![c] =
                          added[c] \o [i \in 1..Len(plan[c]) |-> <<plan[c][i], v>>]]
    /\ done' = [done EXCEPT ![c] = done[c] + 1]
    /\ UNCHANGED <<numcores, num_each, gather, plan, input, gpc, stacks, stack_count,
                   numobj, stats, attrs, k, core, dvars, pvars,
                   ncalls, calls, kept, shapes, tag_start, lvars>>

(***************************************************************************)
(* MPIStats.get_stacks, lines 58-94.  send/recv and Send/Recv are          *)
(* rendezvous: a send and the recv it matches (the peer and the tag agree) *)
(* complete together, and each action runs a process from one of them to   *)
(* the next.                                                               *)
(***************************************************************************)
\* lines 93-94: every stack divided by its count.
DivideAll(d, counts) ==
    [i \in 1..Len(d) |-> <<d[i][1], StackDivide(d[i][2], Get(counts, d[i][1]))>>]

\* line 76 without the leader's own count.
OwnCountNone(c, label) == 0

\* line 76: self.little_stack_count[label]
OwnCount(c, label) == Get(little_stack_count[c], label)

\* The follower's loops cut short: the call returns after its first send.
FollowerNextReturn(s, len, after) == [pc |-> "returned", k |-> 0]

\* What a process does after its send number k[s] has returned.
FollowerNext(s, len, after) ==
    IF k[s] + 1 < len THEN [pc |-> gpc[s], k |-> k[s] + 1]
                      ELSE [pc |-> after, k |-> 0]

\* line 62 (and 103) with every rank taken for the leader.
IsFollowerNone(c) == FALSE

\* lines 62 and 103: self.rank!=0
IsFollower(c) == c # 0

\* A rank calls the gather when its tasks are done, and again after the call
\* has returned while the script has calls left to make.
CanCall(c) ==
    /\ calls[c] < ncalls
    /\ \/ gpc[c] = "loop" /\ done[c] = num_each[c]
       \/ gpc[c] = "returned"

\* Everything the gathers leave on rank c's object.
Held(c) ==
    [stacks |-> stacks[c], stack_count |-> stack_count[c],
     vectors |-> vectors[c], numobj |-> numobj[c], stats |-> stats[c]]

\* The call of get_stacks on rank c, up to its first send or recv.
\* self.stacks[label] is the array object self.little_stack[label] (line 83),
\* so lines 90 and 94 change both.
GetStacksCall(c) ==
    /\ gather = "get_stacks"
    /\ CanCall(c)
    /\ calls' = [calls EXCEPT ![c] = calls[c] + 1]
    /\ kept' = IF c = 0 /\ gpc[c] = "returned" THEN <<Held(c)>> ELSE kept
    /\ LET keys == Keys(little_stack[c])
       IN  IF IsFollower(c)
           THEN /\ gpc' = [gpc EXCEPT ![c] = IF keys = <<>> THEN "returned" ELSE "send_count"]
                /\ k' = [k EXCEPT ![c] = 0]
                /\ UNCHANGED <<little_stack, stacks, stack_count, attrs, core>>
           ELSE /\ attrs' = [attrs EXCEPT ![c] = attrs[c] \cup {"stacks", "stack_count"}]
                /\ IF keys = <<>>
                   THEN /\ stacks' = [stacks EXCEPT ![c] = <<>>]
                        /\ stack_count' = [stack_count EXCEPT ![c] = <<>>]
                        /\ gpc' = [gpc EXCEPT ![c] = "returned"]
                        /\ UNCHANGED <<little_stack, k, core>>
                   ELSE IF numcores = 1
                   THEN LET sc  == [i \in 1..Len(keys) |-> <<keys[i], OwnCount(c, keys[i])>>]
                            res == DivideAll(little_stack[c], sc)
                        IN  /\ stack_count' = [stack_count EXCEPT ![c] = sc]
                            /\ stacks' = [stacks EXCEPT ![c] = res]
                            /\ little_stack' = [little_stack EXCEPT ![c] = res]
                            /\ gpc' = [gpc EXCEPT ![c] = "returned"]
                            /\ UNCHANGED <<k, core>>
                   ELSE /\ stack_count' = [stack_count EXCEPT ![c] =
                                              <<<<keys[1], OwnCount(c, keys[1])>>>>]
                        /\ stacks' = [stacks EXCEPT ![c] = <<>>]
                        /\ gpc' = [gpc EXCEPT ![c] = "recv_count"]
                        /\ k' = [k EXCEPT ![c] = 0]
                        /\ core' = [core EXCEPT ![c] = 1]
                        /\ UNCHANGED little_stack
    /\ UNCHANGED <<numcores, num_each, gather, plan, input, done, little_stack_count,
                   vectors, numobj, stats, added, dvars, pvars, ncalls, shapes, tag_start, lvars>>

\* lines 65 and 78-79 meeting: rank s sends the count of its label number
\* k[s], the leader adds it to the count of its own label number k[0].
StacksCountTransfer(s) ==
    /\ gather = "get_stacks"
    /\ s # 0
    /\ gpc[s] = "send_count" /\ gpc[0] = "recv_count"
    /\ core[0] = s
    /\ StackCountSendTag(k[s]) = StackCountRecvTag(k[0])
    /\ LET keys   == Keys(little_stack[0])
           label  == keys[k[0] + 1]
           skeys  == Keys(little_stack[s])
           data   == Get(little_stack_count[s], skeys[k[s] + 1])
           sc     == Put(stack_count[0], label, Get(stack_count[0], label) + data)
           f      == FollowerNext(s, Len(skeys), "send_data")
       IN  IF core[0] + 1 < numcores
           THEN /\ stack_count' = [stack_count EXCEPT ![0] = sc]
                /\ core' = [core EXCEPT ![0] = core[0] + 1]
                /\ gpc' = [gpc EXCEPT ![s] = f.pc]
                /\ k' = [k EXCEPT ![s] = f.k]
                /\ UNCHANGED stacks
           ELSE IF k[0] + 1 < Len(keys)
           THEN /\ stack_count' = [stack_count EXCEPT ![0] =
                        Put(sc, keys[k[0] + 2], OwnCount(0, keys[k[0] + 2]))]
                /\ core' = [core EXCEPT ![0] = 1]
                /\ gpc' = [gpc EXCEPT ![s] = f.pc]
                /\ k' = [k EXCEPT ![s] = f.k, ![0] = k[0] + 1]
                /\ UNCHANGED stacks
           ELSE /\ stack_count' = [stack_count EXCEPT ![0] = sc]
                /\ stacks' = [stacks EXCEPT ![0] = little_stack[0]]
                /\ core' = [core EXCEPT ![0] = 1]
                /\ gpc' = [gpc EXCEPT ![s] = f.pc, ![0] = "recv_data"]
                /\ k' = [k EXCEPT ![s] = f.k, ![0] = 0]
    /\ UNCHANGED <<numcores, num_each, gather, plan, input, done, little_stack,
                   little_stack_count, vectors, numobj, stats, attrs, added,
                   dvars, pvars,
                   ncalls, calls, kept, shapes, tag_start, lvars>>

\* What np.empty may hand out: memory that was never written.
Uninitialised == {ToFloat(0), ToFloat(5)}

\* line 89: Recv takes a message of at most the buffer's number of elements;
\* a longer one is a truncation error, raised as MPI.Exception.
Fits(shape, msg) == Len(msg.data) <= Size(shape)

\* lines 88-89: the buffers Recv can leave.  The elements of the message
\* fill the buffer from its start, whatever the shape they were sent in;
\* the elements it does not reach keep what np.empty gave them.
RecvInto(shape, msg) ==
    {[dtype |-> "float64", shape |-> shape,
      data  |-> [i \in 1..Size(shape) |->
                    IF i <= Len(msg.data) THEN msg.data[i] ELSE rest[i]]] :
        rest \in [Len(msg.data) + 1..Size(shape) -> Uninitialised]}

\* lines 68-69 and 87-90 meeting: rank s sends the array of its label number
\* k[s]; the leader receives it into a buffer of its own array's shape and
\* adds it to the stack of its own label number k[0].  After the last one
\* the leader divides every stack by its count (lines 93-94).
StacksDataTransfer(s) ==
    /\ gather = "get_stacks"
    /\ s # 0
    /\ gpc[s] = "send_data" /\ gpc[0] = "recv_data"
    /\ core[0] = s
    /\ StackDataSendTag(k[s]) = StackDataRecvTag(k[0])
    /\ LET keys   == Keys(little_stack[0])
           label  == keys[k[0] + 1]
           skeys  == Keys(little_stack[s])
           msg    == Get(little_stack[s], skeys[k[s] + 1])
           expected_shape == Get(little_stack[0], label).shape
           f      == FollowerNext(s, Len(skeys), "returned")
       IN  IF ~Fits(expected_shape, msg)
           THEN /\ gpc' = [gpc EXCEPT ![s] = f.pc, ![0] = "MPI.Exception"]
                /\ k' = [k EXCEPT ![s] = f.k]
                /\ UNCHANGED <<stacks, little_stack, core>>
           ELSE \E vessel \in RecvInto(expected_shape, msg) :
              LET sum == Put(stacks[0], label, VesselAdd(Get(stacks[0], label), vessel))
              IN
              IF k[0] + 1 < Len(keys)
              THEN /\ stacks' = [stacks EXCEPT ![0] = sum]
                   /\ little_stack' = [little_stack EXCEPT ![0] = sum]
                   /\ k' = [k EXCEPT ![s] = f.k, ![0] = k[0] + 1]
                   /\ gpc' = [gpc EXCEPT ![s] = f.pc]
                   /\ UNCHANGED core
              ELSE IF core[0] + 1 < numcores
              THEN /\ stacks' = [stacks EXCEPT ![0] = sum]
                   /\ little_stack' = [little_stack EXCEPT ![0] = sum]
                   /\ k' = [k EXCEPT ![s] = f.k, ![0] = 0]
                   /\ core' = [core EXCEPT ![0] = core[0] + 1]
                   /\ gpc' = [gpc EXCEPT ![s] = f.pc]
              ELSE /\ stacks' = [stacks EXCEPT ![0] = DivideAll(sum, stack_count[0])]
                   /\ little_stack' = [little_stack EXCEPT ![0] = DivideAll(sum, stack_count[0])]
                   /\ k' = [k EXCEPT ![s] = f.k]
                   /\ gpc' = [gpc EXCEPT ![s] = f.pc, ![0] = "returned"]
                   /\ UNCHANGED core
    /\ UNCHANGED <<numcores, num_each, gather, plan, input, done, little_stack_count,
                   vectors, stack_count, numobj, stats, attrs, added, dvars, pvars,
                   ncalls, calls, kept, shapes, tag_start, lvars>>

(***************************************************************************)
(* MPIStats.get_stats, lines 96-134.  stats.getStats is outside this       *)
(* module: self.stats[label] records the matrix it is given.               *)
(***************************************************************************)
\* lines 132-133
GetStatsAll(vs) == [i \in 1..Len(vs) |-> <<vs[i][1], [input |-> vs[i][2]]>>]

\* lines 122-123
NpArrayAll(vs) == [i \in 1..Len(vs) |-> <<vs[i][1], NpArray(vs[i][2])>>]

\* The call of get_stats on rank c, up to its first send or recv.
GetStatsCall(c) ==
    /\ gather = "get_stats"
    /\ CanCall(c)
    /\ calls' = [calls EXCEPT ![c] = calls[c] + 1]
    /\ kept' = IF c = 0 /\ gpc[c] = "returned" THEN <<Held(c)>> ELSE kept
    /\ LET keys == Keys(vectors[c])
       IN  IF IsFollower(c)
           THEN /\ gpc' = [gpc EXCEPT ![c] = IF keys = <<>> THEN "returned" ELSE "send_count"]
                /\ k' = [k EXCEPT ![c] = 0]
                /\ UNCHANGED <<vectors, stats, numobj, attrs, core>>
           ELSE /\ attrs' = [attrs EXCEPT ![c] = attrs[c] \cup {"stats", "numobj"}]
                /\ IF keys = <<>>
                   THEN /\ stats' = [stats EXCEPT ![c] = <<>>]
                        /\ numobj' = [numobj EXCEPT ![c] = <<>>]
                        /\ gpc' = [gpc EXCEPT ![c] = "returned"]
                        /\ UNCHANGED <<vectors, k, core>>
                   ELSE IF numcores = 1
                   THEN /\ numobj' = [numobj EXCEPT ![c] =
                               [i \in 1..Len(keys) |->
                                   <<keys[i], <<NumRows(Get(vectors[c], keys[i]))>>>>]]
                        /\ vectors' = [vectors EXCEPT ![c] = NpArrayAll(vectors[c])]
                        /\ stats' = [stats EXCEPT ![c] = GetStatsAll(NpArrayAll(vectors[c]))]
                        /\ gpc' = [gpc EXCEPT ![c] = "returned"]
                        /\ UNCHANGED <<k, core>>
                   ELSE /\ numobj' = [numobj EXCEPT ![c] =
                               <<<<keys[1], <<NumRows(Get(vectors[c], keys[1]))>>>>>>]
                        /\ stats' = [stats EXCEPT ![c] = <<>>]
                        /\ gpc' = [gpc EXCEPT ![c] = "recv_count"]
                        /\ k' = [k EXCEPT ![c] = 0]
                        /\ core' = [core EXCEPT ![c] = 1]
                        /\ UNCHANGED vectors
    /\ UNCHANGED <<numcores, num_each, gather, plan, input, done, little_stack,
                   little_stack_count, stacks, stack_count, added, dvars, pvars, ncalls, shapes, tag_start, lvars>>

\* lines 105 and 118-119 meeting: rank s sends the number of rows of its
\* label number k[s], the leader appends it to numobj of its own label
\* number k[0].
StatsCountTransfer(s) ==
    /\ gather = "get_stats"
    /\ s # 0
    /\ gpc[s] = "send_count" /\ gpc[0] = "recv_count"
    /\ core[0] = s
    /\ StatsCountSendTag(k[s]) = StatsCountRecvTag(k[0])
    /\ LET keys   == Keys(vectors[0])
           label  == keys[k[0] + 1]
           skeys  == Keys(vectors[s])
           data   == NumRows(Get(vectors[s], skeys[k[s] + 1]))
           no     == Put(numobj[0], label, Append(Get(numobj[0], label), data))
           f      == FollowerNext(s, Len(skeys), "send_data")
       IN  IF core[0] + 1 < numcores
           THEN /\ numobj' = [numobj EXCEPT ![0] = no]
                /\ core' = [core EXCEPT ![0] = core[0] + 1]
                /\ gpc' = [gpc EXCEPT ![s] = f.pc]
                /\ k' = [k EXCEPT ![s] = f.k]
                /\ UNCHANGED vectors
           ELSE IF k[0] + 1 < Len(keys)
           THEN /\ numobj' = [numobj EXCEPT ![0] =
                        Put(no, keys[k[0] + 2],
                            <<NumRows(Get(vectors[0], keys[k[0] + 2]))>>)]
                /\ core' = [core EXCEPT ![0] = 1]
                /\ gpc' = [gpc EXCEPT ![s] = f.pc]
                /\ k' = [k EXCEPT ![s] = f.k, ![0] = k[0] + 1]
                /\ UNCHANGED vectors
           ELSE /\ numobj' = [numobj EXCEPT ![0] = no]
                /\ vectors' = [vectors EXCEPT ![0] = NpArrayAll(vectors[0])]
                /\ core' = [core EXCEPT ![0] = 1]
                /\ gpc' = [gpc EXCEPT ![s] = f.pc, ![0] = "recv_data"]
                /\ k' = [k EXCEPT ![s] = f.k, ![0] = 0]
    /\ UNCHANGED <<numcores, num_each, gather, plan, input, done, little_stack,
                   little_stack_count, stacks, stack_count, stats, attrs, added,
                   dvars, pvars,
                   ncalls, calls, kept, shapes, tag_start, lvars>>

\* lines 108-109 and 127-130 meeting: rank s sends the matrix of its label
\* number k[s] as float64; the leader receives it into a buffer of
\* numobj[label][core] rows and appends the buffer to the matrix of its own
\* label number k[0].  After the last one the leader computes the
\* statistics (lines 132-133).
StatsDataTransfer(s) ==
    /\ gather = "get_stats"
    /\ s # 0
    /\ gpc[s] = "send_data" /\ gpc[0] = "recv_data"
    /\ core[0] = s
    /\ StatsDataSendTag(k[s]) = StatsDataRecvTag(k[0])
    /\ LET keys   == Keys(vectors[0])
           label  == keys[k[0] + 1]
           skeys  == Keys(vectors[s])
           msg    == [dtype |-> "float64",
                      rows  |-> FloatRows(Get(vectors[s], skeys[k[s] + 1]))]
           mine   == Get(vectors[0], label)
           vessel == RecvRows(Get(numobj[0], label)[core[0] + 1], NumCols(mine), msg)
           vs     == Put(vectors[0], label, NpAppend(mine, vessel))
           f      == FollowerNext(s, Len(skeys), "returned")
       IN  /\ vectors' = [vectors EXCEPT ![0] = vs]
           /\ IF k[0] + 1 < Len(keys)
              THEN /\ k' = [k EXCEPT ![s] = f.k, ![0] = k[0] + 1]
                   /\ gpc' = [gpc EXCEPT ![s] = f.pc]
                   /\ UNCHANGED <<core, stats>>
              ELSE IF core[0] + 1 < numcores
              THEN /\ k' = [k EXCEPT ![s] = f.k, ![0] = 0]
                   /\ core' = [core EXCEPT ![0] = core[0] + 1]
                   /\ gpc' = [gpc EXCEPT ![s] = f.pc]
                   /\ UNCHANGED stats
              ELSE /\ stats' = [stats EXCEPT ![0] = GetStatsAll(vs)]
                   /\ k' = [k EXCEPT ![s] = f.k]
                   /\ gpc' = [gpc EXCEPT ![s] = f.pc, ![0] = "returned"]
                   /\ UNCHANGED core
    /\ UNCHANGED <<numcores, num_each, gather, plan, input, done, little_stack,
                   little_stack_count, stacks, stack_count, numobj, attrs, added,
                   dvars, pvars,
                   ncalls, calls, kept, shapes, tag_start, lvars>>

(***************************************************************************)
(* SpecGather: 1..MaxCores processes share numcores..MaxLoad tasks as      *)
(* mpi_distribute shares them, every task body adds to the same labels in  *)
(* the same order, and every process then calls the same gather.           *)
(***************************************************************************)
Plans == {<<>>, <<"a", "b">>, <<"a", "b", "b">>}
Values == {1, 2}

\* MPIStats.__init__ on every rank (lines 26-33), the tasks shared out as
\* mpi_distribute shares them, and the script about to run its tasks.
InitStatsWith(values, tags) ==
    /\ tag_start \in tags
    /\ IdlePipeline
    /\ IdleLoop
    /\ call = [num_tasks |-> 0, avail_cores |-> 0]
    /\ result = [raised |-> "pending"]
    /\ numcores \in 1..MaxCores
    /\ \E nt \in numcores..MaxLoad :
          \E measured \in [0..nt - 1 -> values] :
             LET d == mpi_distribute(nt, numcores)
             IN  /\ num_each = d.num_each
                 /\ input = [c \in Cores |->
                               [i \in 1..d.num_each[c] |-> measured[d.task_dist[c][i]]]]
    /\ gather \in {"get_stacks", "get_stats"}
    /\ gpc = [c \in Cores |-> "loop"]
    /\ done = [c \in Cores |-> 0]
    /\ little_stack = [c \in Cores |-> <<>>]
    /\ little_stack_count = [c \in Cores |-> <<>>]
    /\ vectors = [c \in Cores |-> <<>>]
    /\ stacks = [c \in Cores |-> <<>>]
    /\ stack_count = [c \in Cores |-> <<>>]
    /\ numobj = [c \in Cores |-> <<>>]
    /\ stats = [c \in Cores |-> <<>>]
    /\ attrs = [c \in Cores |-> {}]
    /\ k = [c \in Cores |-> 0]
    /\ core = [c \in Cores |-> 0]
    /\ added = [c \in Cores |-> <<>>]
    /\ calls = [c \in Cores |-> 0]
    /\ kept = <<>>

\* The same with the default tag_start.
InitStatsOf(values) == InitStatsWith(values, {DefaultTagStart})

InitStats == InitStatsOf(Values)

InitGather ==
    /\ InitStats
    /\ ncalls = 1
    /\ \E labels \in Plans : plan = [c \in Cores |-> labels]
    /\ shapes = [c \in Cores |-> <<2>>]

NextGather ==
    \/ \E c \in Cores : Task(c)
    \/ \E c \in Cores : GetStacksCall(c)
    \/ \E c \in Cores : StacksCountTransfer(c)
    \/ \E c \in Cores : StacksDataTransfer(c)
    \/ \E c \in Cores : GetStatsCall(c)
    \/ \E c \in Cores : StatsCountTransfer(c)
    \/ \E c \in Cores : StatsDataTransfer(c)

SpecGather == InitGather /\ [][NextGather]_vars

AllCalled == \A c \in Cores : gpc[c] # "loop"

AllReturned == \A c \in Cores : gpc[c] = "returned"

\* Every process enumerates the same labels in the same order.
SameLabelList ==
    \A c \in Cores :
        /\ Keys(little_stack[c]) = Keys(little_stack[0])
        /\ Keys(vectors[c]) = Keys(vectors[0])

\* The values a sequence of <<label, value>> pairs holds for a label, in order.
RECURSIVE SelectLabel(_, _)
SelectLabel(pairs, label) ==
    IF pairs = <<>> THEN <<>>
    ELSE (IF Head(pairs)[1] = label THEN <<Head(pairs)[2]>> ELSE <<>>)
            \o SelectLabel(Tail(pairs), label)

\* The values ranks 0..n-1 have added to a label: rank 0's in the order it
\* added them, then rank 1's, and so on.
RECURSIVE AddedBy(_, _)
AddedBy(label, n) ==
    IF n = 0 THEN <<>> ELSE AddedBy(label, n - 1) \o SelectLabel(added[n - 1], label)

RECURSIVE SeqSum(_)
SeqSum(q) == IF q = <<>> THEN 0 ELSE Head(q) + SeqSum(Tail(q))

PlanLabels == {plan[0][i] : i \in 1..Len(plan[0])}

\* How far rank c is through its run: its tasks, then the count phase, then
\* the array phase, in the order of its loops.
NumKeys == IF gather = "get_stacks" THEN Len(little_stack[0]) ELSE Len(vectors[0])

Position(c) ==
    CASE gpc[c] = "loop"       -> done[c]
      [] gpc[c] = "send_count" -> 100 + k[c]
      [] gpc[c] = "recv_count" -> 100 + k[c] * numcores + core[c]
      [] gpc[c] = "send_data"  -> 200 + k[c]
      [] gpc[c] = "recv_data"  -> 200 + core[c] * NumKeys + k[c]
      [] gpc[c] = "returned"   -> 300

Progress == SumTo([c \in Cores |-> Position(c)], numcores)

\* C3: once every process has called the gather, all holding the same label
\* list in the same order, no process stays blocked in a send or recv: as
\* long as some call has not returned a send meets its recv (a step is
\* enabled), and every step moves the processes forward through their
\* finite runs, so every call returns.
C3_EveryCallReturns ==
    /\ []((AllCalled /\ SameLabelList) => (AllReturned \/ ENABLED NextGather))
    /\ [][Progress' > Progress]_vars

\* C3's case: three processes went through both phases for two labels and
\* all have returned.
C3_Witness ==
    /\ numcores = 3 /\ AllReturned /\ SameLabelList
    /\ gather = "get_stacks" /\ Len(little_stack[0]) = 2
    /\ \A c \in Cores : Len(little_stack[c]) = 2

\* C5: when get_stacks has returned on the leader, its stacks hold, for each
\* label, the elementwise sum of every array any process added to the label
\* divided by the number of arrays added to it (so an array A, when all of
\* them are A), and its stack_count holds that number.
C5_StackAverage ==
    (gather = "get_stacks" /\ gpc[0] = "returned" /\ SameLabelList) =>
        /\ {stacks[0][i][1] : i \in 1..Len(stacks[0])} = PlanLabels
        /\ \A label \in PlanLabels :
              LET vs   == AddedBy(label, numcores)
                  arrs == [i \in 1..Len(vs) |-> StackInput(label, vs[i])]
                  avg  == Get(stacks[0], label)
              IN  /\ Get(stack_count[0], label) = Len(vs)
                  /\ avg.shape = <<2>>
                  /\ \A e \in 1..2 :
                        avg.data[e]
                           = FloatDiv(ToFloat(SeqSum([i \in 1..Len(vs) |-> arrs[i].data[e]])),
                                      Len(vs))
                  /\ (\A i \in 1..Len(vs) : arrs[i] = arrs[1])
                        => avg.data = FloatData(arrs[1])

\* C5's case: three processes with different numbers of different arrays;
\* the average of label "a" is not one of the arrays added.
C5_Witness ==
    /\ gather = "get_stacks" /\ numcores = 3 /\ gpc[0] = "returned"
    /\ num_each[2] = 2 /\ plan[0] = <<"a", "b", "b">>
    /\ Get(stack_count[0], "b") = 8
    /\ Get(stacks[0], "a").data[1] = <<5, 4>>

\* C6: when get_stats has returned on the leader, its matrix of each label
\* is the rows rank 0 added, in the order it added them, then rank 1's, and
\* so on in ascending rank; numobj holds the per-rank row counts, in rank
\* order, and the statistics are computed from that matrix.
C6_RankOrderedMerge ==
    (gather = "get_stats" /\ gpc[0] = "returned" /\ SameLabelList) =>
        /\ {vectors[0][i][1] : i \in 1..Len(vectors[0])} = PlanLabels
        /\ \A label \in PlanLabels :
              LET vs     == AddedBy(label, numcores)
                  merged == Get(vectors[0], label)
              IN  /\ NumRows(merged) = Len(vs)
                  /\ NumRows(merged)
                        = SeqSum([c \in 1..numcores |->
                                    Len(SelectLabel(added[c - 1], label))])
                  /\ FloatRows(merged)
                        = [i \in 1..Len(vs) |->
                             [j \in 1..2 |-> ToFloat(StatsInput(label, vs[i])[j])]]
                  /\ Get(numobj[0], label)
                        = [c \in 1..numcores |-> Len(SelectLabel(added[c - 1], label))]
                  /\ Get(stats[0], label).input = merged

\* C6's case: three processes with different numbers of rows, the rows of
\* rank 0, rank 1 and rank 2 told apart by their values.
C6_Witness ==
    /\ gather = "get_stats" /\ numcores = 3 /\ gpc[0] = "returned"
    /\ plan[0] = <<"a", "b">>
    /\ Get(numobj[0], "a") = <<1, 1, 2>>
    /\ Get(vectors[0], "a").rows
          = << <<ToFloat(2), ToFloat(10)>>, <<ToFloat(1), ToFloat(10)>>,
               <<ToFloat(2), ToFloat(10)>>, <<ToFloat(1), ToFloat(10)>> >>

\* C12: no step of a follower that is in, or enters, its gather call changes
\* its sample lists, running sums or counts, and no follower is ever given
\* stacks, stack_count, stats or numobj: the call creates them on the leader
\* only.
C12_FollowersUnchanged ==
    /\ [](\A c \in Cores \ {0} :
             /\ attrs[c] = {}
             /\ stacks[c] = <<>> /\ stack_count[c] = <<>>
             /\ stats[c] = <<>> /\ numobj[c] = <<>>)
    /\ [](gpc[0] = "returned" =>
             attrs[0] = IF gather = "get_stacks" THEN {"stacks", "stack_count"}
                                                 ELSE {"stats", "numobj"})
    /\ [][\A c \in Cores \ {0} :
             gpc'[c] # "loop" =>
                /\ little_stack'[c] = little_stack[c]
                /\ little_stack_count'[c] = little_stack_count[c]
                /\ vectors'[c] = vectors[c]]_vars

\* C12's case: a gather of three processes has returned everywhere, the
\* followers still holding what their tasks added.
C12_Witness ==
    /\ numcores = 3 /\ AllReturned /\ Len(plan[0]) = 3
    /\ \/ gather = "get_stacks" /\ Get(little_stack_count[2], "b") = 4
             /\ Get(stack_count[0], "b") = 8
       \/ gather = "get_stats" /\ NumRows(Get(vectors[1], "a")) = 1
             /\ NumRows(Get(vectors[0], "a")) = 4

\* The labels rank c's gather enumerates.
LabelsOf(c) == IF gather = "get_stacks" THEN Keys(little_stack[c]) ELSE Keys(vectors[c])

Entered(c) == gpc[c] # "loop"

\* C15 (as claimed): no call of the gather has returned while some process
\* has not entered it.
C15_Barrier ==
    \A c \in Cores : gpc[c] = "returned" => \A d \in Cores : Entered(d)

\* C15 (amended): with rendezvous sends, no call of a process that
\* enumerates at least one label has returned while some process has not
\* entered the gather.  (A process without labels sends and receives
\* nothing and returns at once.)
C15_BarrierWithLabels ==
    \A c \in Cores :
        (gpc[c] = "returned" /\ LabelsOf(c) # <<>>) => \A d \in Cores : Entered(d)

\* C15's case: rank 1's call has returned, after every rank entered, while
\* the leader is still receiving from rank 2.
C15_Witness ==
    /\ numcores = 3 /\ LabelsOf(1) # <<>>
    /\ gpc[1] = "returned" /\ gpc[0] = "recv_data" /\ gpc[2] = "send_data"

(***************************************************************************)
(* SpecMismatch: as SpecGather, but every process's task bodies add to     *)
(* that process's own list of labels, so the dictionaries of two processes *)
(* can differ in their labels or in the order of their labels.             *)
(***************************************************************************)
LabelLists == {<<"a">>, <<"b">>, <<"a", "b">>, <<"b", "a">>}

InitMismatch ==
    /\ InitStatsOf({1})
    /\ ncalls = 1
    /\ plan \in [Cores -> LabelLists]
    /\ shapes = [c \in Cores |-> <<2>>]

SpecMismatch == InitMismatch /\ [][NextGather]_vars

LabelSet(c) == {LabelsOf(c)[i] : i \in 1..Len(LabelsOf(c))}

\* A process whose call ended in an exception.
Failed(c) == gpc[c] = "MPI.Exception"

\* No process can take a step: every one has returned, failed, or is blocked
\* in a send or a recv.
Stuck == ~ENABLED NextGather

\* C16: when two processes that have entered the gather hold the same set of
\* labels in different orders, the leader's call never returns.
C16_DifferentOrderDeadlocks ==
    (/\ AllCalled
     /\ \E c, d \in Cores : LabelSet(c) = LabelSet(d) /\ LabelsOf(c) # LabelsOf(d))
        => gpc[0] # "returned"

\* C17: when the label sets of two processes that have entered the gather
\* differ, the leader's call never returns a result, and a run that has
\* come to a stop has a process whose call ended in an error.
C17_MismatchIsError ==
    (/\ AllCalled
     /\ \E c, d \in Cores : LabelSet(c) # LabelSet(d))
        => /\ gpc[0] # "returned"
           /\ Stuck => \E c \in Cores : Failed(c)

(***************************************************************************)
(* SpecPermute: get_stacks of one label over measured values of very       *)
(* different magnitudes, so some sums round and others are exact.          *)
(***************************************************************************)
Magnitudes == {1, 3, Pow2(Precision)}

InitPermute ==
    /\ InitStatsOf(Magnitudes)
    /\ gather = "get_stacks"
    /\ ncalls = 1
    /\ plan = [c \in Cores |-> <<"a">>]
    /\ shapes = [c \in Cores |-> <<2>>]

NextStacks ==
    \/ \E c \in Cores : Task(c)
    \/ \E c \in Cores : GetStacksCall(c)
    \/ \E c \in Cores : StacksCountTransfer(c)
    \/ \E c \in Cores : StacksDataTransfer(c)

SpecPermute == InitPermute /\ [][NextStacks]_vars

\* The running sums and counts rank c's add_to_stack calls built (the
\* leader's own are overwritten by the gather).
RECURSIVE Replay(_, _)
Replay(st, pairs) ==
    IF pairs = <<>> THEN st
    ELSE Replay(add_to_stack(st, Head(pairs)[1],
                             StackInput(Head(pairs)[1], Head(pairs)[2])),
                Tail(pairs))

Local(c) == Replay([stack |-> <<>>, count |-> <<>>], added[c])

\* lines 75-94 as a function of the (running sums, counts) of the ranks, in
\* rank order, the leader's first: the count and the sum of each label
\* start from the leader's own and take in core 1's, core 2's, ...
RECURSIVE CountFrom(_, _, _, _)
CountFrom(acc, locals, label, n) ==
    IF n > Len(locals) THEN acc
    ELSE CountFrom(acc + Get(locals[n].count, label), locals, label, n + 1)

RECURSIVE SumFrom(_, _, _, _)
SumFrom(acc, locals, label, n) ==
    IF n > Len(locals) THEN acc
    ELSE SumFrom(VesselAdd(acc, Get(locals[n].stack, label)), locals, label, n + 1)

MergeStacks(locals) ==
    LET mine   == locals[1]
        counts == [j \in 1..Len(mine.stack) |->
                     <<mine.stack[j][1],
                       CountFrom(Get(mine.count, mine.stack[j][1]), locals,
                                 mine.stack[j][1], 2)>>]
        sums   == [j \in 1..Len(mine.stack) |->
                     <<mine.stack[j][1],
                       SumFrom(mine.stack[j][2], locals, mine.stack[j][1], 2)>>]
    IN  [stack_count |-> counts, stacks |-> DivideAll(sums, counts)]

\* The ways of handing the ranks' (running sum, count) pairs to the ranks.
Assignments ==
    {p \in [1..numcores -> 1..numcores] : \A i, j \in 1..numcores : p[i] = p[j] => i = j}

Permuted(p) == MergeStacks([i \in 1..numcores |-> Local(p[i] - 1)])

\* The (running sums, counts) of ranks 0..n-1, worked out once.
RECURSIVE LocalsUpTo(_)
LocalsUpTo(n) == IF n = 0 THEN <<>> ELSE Append(LocalsUpTo(n - 1), Local(n - 1))

\* Permuted(p) over those.
PermutedOf(locals, p) == MergeStacks([i \in 1..numcores |-> locals[p[i]]])

\* C14 (as claimed): whichever rank holds which (running sum, count) pair,
\* the leader ends with the averages it has ended with here.
C14_AnyPermutationSame ==
    (gpc[0] = "returned") =>
        \A p \in Assignments : Permuted(p).stacks = stacks[0]

\* No addition of these running sums can round: their elements are whole
\* numbers whose magnitudes together stay below 2^Precision.
RECURSIVE AbsTotal(_, _)
AbsTotal(e, n) ==
    IF n = 0 THEN 0
    ELSE AbsTotal(e, n - 1) + Abs(Get(Local(n - 1).stack, "a").data[e][1])

SumsExact ==
    \A e \in 1..2 :
        /\ \A c \in Cores : Get(Local(c).stack, "a").data[e][2] = 1
        /\ AbsTotal(e, numcores) < Pow2(Precision)

\* C14 (amended): whichever rank holds which pair, the leader ends with the
\* same counts; it ends with the same averages when the pairs of the leader
\* and of rank 1 are exchanged (addition commutes), and for every
\* permutation when no addition of the running sums can round.  (Otherwise
\* the sums are added in rank order and rounded after each addition, and
\* the average can depend on the order.)
C14_PermutationSameWhenExact ==
    (gpc[0] = "returned") =>
        \A locals \in {LocalsUpTo(numcores)} : \A exact \in {SumsExact} :
            \A p \in Assignments :
                LET merged == PermutedOf(locals, p)
                IN  /\ merged.stack_count = stack_count[0]
                    /\ (\A i \in 3..numcores : p[i] = i) => merged.stacks = stacks[0]
                    /\ exact => merged.stacks = stacks[0]

\* C14's case: three processes whose running sums differ and add up
\* exactly.
C14_Witness ==
    /\ gpc[0] = "returned" /\ numcores = 3 /\ SumsExact
    /\ Get(Local(0).stack, "a").data[1] = <<1, 1>>
    /\ Get(Local(1).stack, "a").data[1] = <<3, 1>>
    /\ Get(Local(2).stack, "a").data[1] = <<4, 1>>
    /\ Get(stacks[0], "a").data[1] = <<2, 1>>

(***************************************************************************)
(* SpecShapes: get_stacks over processes that add to the same labels in    *)
(* the same order, each process with arrays of its own shape.              *)
(***************************************************************************)
ArrayShapes == {<<1>>, <<2>>, <<3>>, <<1, 2>>}

InitShapes ==
    /\ InitStatsOf({1})
    /\ gather = "get_stacks"
    /\ ncalls = 1
    /\ \E labels \in {<<"a">>, <<"a", "b">>} : plan = [c \in Cores |-> labels]
    /\ shapes \in [Cores -> ArrayShapes]

SpecShapes == InitShapes /\ [][NextStacks]_vars

\* C18: when some follower's arrays have another shape than the leader's,
\* the leader's call never returns with a stack.
C18_ShapeMismatchIsError ==
    (\E c \in Cores \ {0} : shapes[c] # shapes[0]) => gpc[0] # "returned"

(***************************************************************************)
(* SpecTags: as SpecGather, for the default tag_start and for others a     *)
(* caller can pass to MPIStats.                                            *)
(***************************************************************************)
TagStarts == {0, 1, DefaultTagStart}

InitTags ==
    /\ InitStatsWith({1}, TagStarts)
    /\ ncalls = 1
    /\ \E labels \in Plans : plan = [c \in Cores |-> labels]
    /\ shapes = [c \in Cores |-> <<2>>]

SpecTags == InitTags /\ [][NextGather]_vars

\* The tag of the send rank s is blocked in, and of the recv the leader is
\* blocked in.
SendTag(s) ==
    IF gather = "get_stacks"
    THEN IF gpc[s] = "send_count" THEN StackCountSendTag(k[s]) ELSE StackDataSendTag(k[s])
    ELSE IF gpc[s] = "send_count" THEN StatsCountSendTag(k[s]) ELSE StatsDataSendTag(k[s])

RecvTag ==
    IF gather = "get_stacks"
    THEN IF gpc[0] = "recv_count" THEN StackCountRecvTag(k[0]) ELSE StackDataRecvTag(k[0])
    ELSE IF gpc[0] = "recv_count" THEN StatsCountRecvTag(k[0]) ELSE StatsDataRecvTag(k[0])

\* MPI's matching: rank s is in a send to the leader, the leader is in a
\* recv from source s, and the tags are equal.
Matches(s) ==
    /\ s # 0
    /\ gpc[s] \in {"send_count", "send_data"}
    /\ gpc[0] \in {"recv_count", "recv_data"}
    /\ core[0] = s
    /\ SendTag(s) = RecvTag

\* The step in which rank s's send completes.
Sent(s) == Matches(s) /\ <<gpc[s], k[s]>>' # <<gpc[s], k[s]>>

\* The label the leader's recv is for, and the label rank s's send is of.
RecvLabel == LabelsOf(0)[k[0] + 1]

SendLabel(s) == LabelsOf(s)[k[s] + 1]

\* The tags of the count phase and of the array phase for the first n labels.
CountTags(n) ==
    {IF gather = "get_stacks" THEN StackCountRecvTag(j) ELSE StatsCountRecvTag(j) : j \in 0..n - 1}

DataTags(n) ==
    {IF gather = "get_stacks" THEN StackDataRecvTag(j) ELSE StatsDataRecvTag(j) : j \in 0..n - 1}

\* Every message the leader consumes is the one its recv is for: the send
\* it matches is of the same phase and of the same label, and what the
\* leader records under that label is what the sender holds under it.
RightMessages ==
    /\ [](\A s \in Cores :
            Matches(s) => /\ (gpc[s] = "send_count") = (gpc[0] = "recv_count")
                          /\ SendLabel(s) = RecvLabel)
    /\ [][\A s \in Cores :
            (Sent(s) /\ gpc[0] = "recv_count") =>
                IF gather = "get_stacks"
                THEN Get(stack_count'[0], RecvLabel) =
                         Get(stack_count[0], RecvLabel) + Get(little_stack_count[s], RecvLabel)
                ELSE Get(numobj'[0], RecvLabel) =
                         Append(Get(numobj[0], RecvLabel), NumRows(Get(vectors[s], RecvLabel)))]_vars
    /\ [][\A s \in Cores :
            (Sent(s) /\ gpc[0] = "recv_data") =>
                IF gather = "get_stacks"
                THEN LET sum == StackAdd(Get(stacks[0], RecvLabel),
                                         Get(little_stack[s], RecvLabel))
                     IN  Get(stacks'[0], RecvLabel) =
                             IF gpc'[0] = "returned"
                             THEN StackDivide(sum, Get(stack_count[0], RecvLabel))
                             ELSE sum
                ELSE Get(vectors'[0], RecvLabel).rows =
                         FloatRows(Get(vectors[0], RecvLabel)) \o
                         FloatRows(Get(vectors[s], RecvLabel))]_vars

\* C20 (as claimed): the tags a follower sends with are distinct per label and disjoint between
\* the count phase and the array phase, and every message the leader
\* consumes is the one its recv is for.
C20_TagsSeparateMessages ==
    /\ [](\A c \in Cores \ {0} :
            LET n == Len(LabelsOf(c))
            IN  /\ Cardinality(CountTags(n)) = n
                /\ Cardinality(DataTags(n)) = n
                /\ CountTags(n) \cap DataTags(n) = {})
    /\ RightMessages

\* C20 (amended): the tags a follower sends with in one phase are distinct
\* per label; the tags of
\* the two phases are disjoint when tag_start is not 0; and, whatever
\* tag_start is, every message the leader consumes is the one its recv is
\* for.
C20_RightMessages ==
    /\ [](\A c \in Cores \ {0} :
            LET n == Len(LabelsOf(c))
            IN  /\ Cardinality(CountTags(n)) = n
                /\ Cardinality(DataTags(n)) = n
                /\ tag_start # 0 => CountTags(n) \cap DataTags(n) = {})
    /\ RightMessages

\* C20's case: with tag_start 0 and three processes the leader has received
\* the counts and the arrays of two labels from ranks 1 and 2 and returned.
C20_Witness ==
    /\ tag_start = 0 /\ numcores = 3 /\ Len(LabelsOf(0)) = 2
    /\ gpc[0] = "returned"

(***************************************************************************)
(* SpecAgain: as SpecGather, but the script calls the gather twice on      *)
(* every rank, with no add_to_stack or add_to_stats in between.            *)
(***************************************************************************)
InitAgain ==
    /\ InitStats
    /\ ncalls = 2
    /\ \E labels \in Plans : plan = [c \in Cores |-> labels]
    /\ shapes = [c \in Cores |-> <<2>>]

SpecAgain == InitAgain /\ [][NextGather]_vars

\* C11 (as claimed): when the second call of the gather has returned on the
\* leader, the leader holds what it held when the first call had returned
\* (no call of a gather ends in an error here).
C11_SecondCallSame ==
    (calls[0] = 2 /\ gpc[0] = "returned") => Held(0) = kept[1]
====
